---------------------------- MODULE Spec2Model ----------------------------
(***************************************************************************)
(* The token-acquisition engine of oidc-agent: the cache check and the     *)
(* four entry points of oidc-agent_options.h (getAccessTokenUsing*Flow,    *)
(* tryRefreshFlow, tryPasswordFlow, tokenIsValidForSeconds, parseFlow), the *)
(* flow drivers they call and the orchestrator that runs a flow order;     *)
(* OIDC discovery (openid_config.c: getIssuerConfig,                       *)
(* getScopesSupportedFor), the password lifetime, and daemonize.           *)
(*                                                                         *)
(* C strings are TLA+ strings; a NULL pointer is the string NULL.          *)
(* Every C function that writes the account or oidc_errno is an operator   *)
(* from (account, oidc_errno, arguments, clock, issuer response) to a      *)
(* record [account, oidc_errno, ret, path, driver]: the account and        *)
(* oidc_errno after the call, the return value, the branch taken and the   *)
(* flow driver that ran ("none" when none did).                            *)
(***************************************************************************)
EXTENDS Integers, Sequences, FiniteSets, TLC

\* ------------------------------------------------------------- bounds
\* The clock runs over MaxTime instants from StartTime on (time(NULL) is far
\* from 0, the expiry that stands for unknown).
StartTime == 10
MaxTime == 3
MaxExpiresIn == 2
MaxPeriod == 2
MaxNegPeriod == 2
MaxFlowLen == 2

Times == StartTime..(StartTime + MaxTime - 1)

\* ---------------------------------------------------------- constants
NULL == "<NULL>"
FORCE_NEW_TOKEN == -1

OIDC_SUCCESS == "OIDC_SUCCESS"
OIDC_ENOREFRSH == "OIDC_ENOREFRSH"
OIDC_ECRED == "OIDC_ECRED"
OIDC_EREVOKED == "OIDC_EREVOKED"
OIDC_EOIDC == "OIDC_EOIDC"
OIDC_ECURL == "OIDC_ECURL"
OIDC_ENOFLOW == "OIDC_ENOFLOW"

FLOW_VALUE_REFRESH == "refresh"
FLOW_VALUE_PASSWORD == "password"
FLOW_VALUE_CODE == "code"
FLOW_VALUE_DEVICE == "device"

FlowNames == {FLOW_VALUE_REFRESH, FLOW_VALUE_PASSWORD, FLOW_VALUE_CODE, FLOW_VALUE_DEVICE}

\* Errors a flow driver can report after contacting the issuer.
DriverErrors == {OIDC_EOIDC, OIDC_ECURL}
\* Skip conditions: a precondition of the flow is missing, no request was made.
SkipErrors == {OIDC_ENOREFRSH, OIDC_ECRED}

AccessTokens == {"AT1", "AT2"}
Periods == (0 - MaxNegPeriod)..MaxPeriod
Scopes == {NULL, "openid"}

\* ------------------------------------------------------ string helpers
strValid(c) == c /= NULL /\ c /= ""

\* ------------------------------------------------------------- account
account_getAccessToken(p) == p.access_token
account_getTokenExpiresAt(p) == p.expires_at
account_getRefreshToken(p) == p.refresh_token
account_getUsername(p) == p.username
account_getPassword(p) == p.password
account_refreshTokenIsValid(p) == strValid(account_getRefreshToken(p))

\* The result of a call.
Out(p, e, r, path, driver) ==
  [account |-> p, oidc_errno |-> e, ret |-> r, path |-> path, driver |-> driver]

\* ---------------------------------------------------- issuer responses
\* A token-endpoint exchange either yields a token response or an error.
\* expires_in = 0 stands for an absent or non-positive expires_in; a
\* refresh_token of NULL for a response without one.
OkResponses ==
  [err : {OIDC_SUCCESS}, access_token : AccessTokens,
   expires_in : 0..MaxExpiresIn, refresh_token : {NULL, "RT2"}]
ErrResponse(e) ==
  [err |-> e, access_token |-> NULL, expires_in |-> 0, refresh_token |-> NULL]
\* The refresh exchange can also be answered invalid_grant (OIDC_EREVOKED).
RefreshResponses == OkResponses \cup {ErrResponse(e) : e \in DriverErrors \cup {OIDC_EREVOKED}}
ExchangeResponses == OkResponses \cup {ErrResponse(e) : e \in DriverErrors}

\* Token response parser (spec 4.3): stores the access token, the expiry
\* (0 when expires_in is not positive) and a rotated refresh token.
parseTokenResponse(p, t, resp) ==
  [p EXCEPT !.access_token = resp.access_token,
            !.expires_at = IF resp.expires_in > 0 THEN t + resp.expires_in ELSE 0,
            !.refresh_token = IF resp.refresh_token /= NULL
                                THEN resp.refresh_token ELSE @]

\* Common shape of the password, code and device drivers (spec 4.4): on
\* success the parser updates the account, on failure the cached state is
\* left alone and the typed error is returned.
exchange(p, t, resp, name) ==
  IF resp.err = OIDC_SUCCESS
    THEN Out(parseTokenResponse(p, t, resp), OIDC_SUCCESS, OIDC_SUCCESS, "driver", name)
    ELSE Out(p, resp.err, resp.err, "driver", name)

\* Refresh driver (spec 4.4): returns the new access token; invalid_grant
\* maps to OIDC_EREVOKED and clears the stored refresh token.
refreshFlow(p, e0, scope, t, resp) ==
  IF resp.err = OIDC_SUCCESS
    THEN LET q == parseTokenResponse(p, t, resp)
         IN Out(q, e0, account_getAccessToken(q), "driver", FLOW_VALUE_REFRESH)
    ELSE IF resp.err = OIDC_EREVOKED
      THEN Out([p EXCEPT !.refresh_token = NULL], OIDC_EREVOKED, NULL,
               "driver", FLOW_VALUE_REFRESH)
      ELSE Out(p, resp.err, NULL, "driver", FLOW_VALUE_REFRESH)

passwordFlow(p, t, resp) == exchange(p, t, resp, FLOW_VALUE_PASSWORD)
codeExchange(p, code, t, resp) == exchange(p, t, resp, FLOW_VALUE_CODE)
lookUpDeviceCode(p, device_code, t, resp) == exchange(p, t, resp, FLOW_VALUE_DEVICE)

\* Mutant: a failure of the refresh driver reported as a missing refresh token.
tryRefreshFlow_maskError(p, e0, scope, t, resp) ==
  IF ~account_refreshTokenIsValid(p)
    THEN Out(p, OIDC_ENOREFRSH, NULL, "skip", "none")
    ELSE LET r == refreshFlow(p, e0, scope, t, resp)
         IN IF r.ret = NULL THEN [r EXCEPT !.oidc_errno = OIDC_ENOREFRSH] ELSE r

\* Mutant: the refresh token is not checked before the driver runs.
tryRefreshFlow_noCheck(p, e0, scope, t, resp) ==
  refreshFlow(p, e0, scope, t, resp)

\* Mutant: the wrong error code for a missing refresh token.
tryRefreshFlow_copyPaste(p, e0, scope, t, resp) ==
  IF ~account_refreshTokenIsValid(p)
    THEN Out(p, OIDC_ECRED, NULL, "skip", "none")
    ELSE refreshFlow(p, e0, scope, t, resp)

\* Mutant: the refresh token tested for the empty string only, not for NULL.
tryRefreshFlow_emptyOnly(p, e0, scope, t, resp) ==
  IF account_getRefreshToken(p) = ""
    THEN Out(p, OIDC_ENOREFRSH, NULL, "skip", "none")
    ELSE refreshFlow(p, e0, scope, t, resp)

\* ------------------------------------------- oidc-agent_options.h:159
tryRefreshFlow(p, e0, scope, t, resp) ==
  IF ~account_refreshTokenIsValid(p)
    THEN Out(p, OIDC_ENOREFRSH, NULL, "skip", "none")
    ELSE refreshFlow(p, e0, scope, t, resp)

\* Mutant: && for || in the test of the credentials.
tryPasswordFlow_and(p, e0, t, resp) ==
  IF ~strValid(account_getUsername(p)) /\ ~strValid(account_getPassword(p))
    THEN Out(p, OIDC_ECRED, OIDC_ECRED, "skip", "none")
    ELSE passwordFlow(p, t, resp)

\* Mutant: the wrong error code for missing credentials.
tryPasswordFlow_copyPaste(p, e0, t, resp) ==
  IF ~strValid(account_getUsername(p)) \/ ~strValid(account_getPassword(p))
    THEN Out(p, OIDC_ENOREFRSH, OIDC_ENOREFRSH, "skip", "none")
    ELSE passwordFlow(p, t, resp)

\* Mutant: incomplete credentials are cleared when the flow is skipped.
tryPasswordFlow_wipe(p, e0, t, resp) ==
  IF ~strValid(account_getUsername(p)) \/ ~strValid(account_getPassword(p))
    THEN Out([p EXCEPT !.username = NULL, !.password = ""], OIDC_ECRED, OIDC_ECRED,
             "skip", "none")
    ELSE passwordFlow(p, t, resp)

\* Mutant: only the username is tested before the driver runs.
tryPasswordFlow_userOnly(p, e0, t, resp) ==
  IF ~strValid(account_getUsername(p))
    THEN Out(p, OIDC_ECRED, OIDC_ECRED, "skip", "none")
    ELSE passwordFlow(p, t, resp)

\* ------------------------------------------- oidc-agent_options.h:176
tryPasswordFlow(p, e0, t, resp) ==
  IF ~strValid(account_getUsername(p)) \/ ~strValid(account_getPassword(p))
    THEN Out(p, OIDC_ECRED, OIDC_ECRED, "skip", "none")
    ELSE passwordFlow(p, t, resp)

\* Mutant: the period compared with >= (off by one second).
tokenIsValidForSeconds_offByOne(p, min_valid_period, t) ==
  LET expires_at == account_getTokenExpiresAt(p)
  IN expires_at - t > 0 /\ expires_at - t >= min_valid_period

\* Mutant: the operands of the subtraction swapped.
tokenIsValidForSeconds_swapped(p, min_valid_period, t) ==
  LET expires_at == account_getTokenExpiresAt(p)
  IN t - expires_at > 0 /\ t - expires_at > min_valid_period

\* Mutant: only the period is compared, the test that the token has not
\* expired yet is left out.
tokenIsValidForSeconds_periodOnly(p, min_valid_period, t) ==
  LET expires_at == account_getTokenExpiresAt(p)
  IN expires_at - t > min_valid_period

\* ------------------------------------------- oidc-agent_options.h:195
\* t is the value time(NULL) returns inside the call.
tokenIsValidForSeconds(p, min_valid_period, t) ==
  LET expires_at == account_getTokenExpiresAt(p)
  IN expires_at - t > 0 /\ expires_at - t > min_valid_period

\* Mutant: the FORCE_NEW_TOKEN test left out.
cacheHit_noForce(p, min_valid_period, scope, t) ==
  /\ scope = NULL
  /\ strValid(account_getAccessToken(p))
  /\ tokenIsValidForSeconds(p, min_valid_period, t)

\* ------------------------------------------- oidc-agent_options.h:205
cacheHit(p, min_valid_period, scope, t) ==
  /\ scope = NULL
  /\ min_valid_period /= FORCE_NEW_TOKEN
  /\ strValid(account_getAccessToken(p))
  /\ tokenIsValidForSeconds(p, min_valid_period, t)

\* ------------------------------------------- oidc-agent_options.h:202
getAccessTokenUsingRefreshFlow(p, e0, min_valid_period, scope, t, resp) ==
  IF cacheHit(p, min_valid_period, scope, t)
    THEN Out(p, e0, account_getAccessToken(p), "cache", "none")
    ELSE tryRefreshFlow(p, e0, scope, t, resp)

\* ------------------------------------------- oidc-agent_options.h:214
getAccessTokenUsingPasswordFlow(p, e0, t, resp) ==
  IF strValid(account_getAccessToken(p))
    THEN Out(p, e0, OIDC_SUCCESS, "cache", "none")
    ELSE LET r == tryPasswordFlow(p, e0, t, resp)
         IN [r EXCEPT !.oidc_errno = r.ret]

\* ------------------------------------------- oidc-agent_options.h:223
getAccessTokenUsingAuthCodeFlow(p, e0, code, t, resp) ==
  IF strValid(account_getAccessToken(p))
    THEN Out(p, e0, OIDC_SUCCESS, "cache", "none")
    ELSE LET r == codeExchange(p, code, t, resp)
         IN [r EXCEPT !.oidc_errno = r.ret]

\* ------------------------------------------- oidc-agent_options.h:236
getAccessTokenUsingDeviceFlow(p, e0, device_code, t, resp) ==
  IF strValid(account_getAccessToken(p))
    THEN Out(p, e0, OIDC_SUCCESS, "cache", "none")
    ELSE LET r == lookUpDeviceCode(p, device_code, t, resp)
         IN [r EXCEPT !.oidc_errno = r.ret]

\* ------------------------------------------- oidc-agent_options.h:253
\* A flow argument is NULL, a bare name, or a bracketed JSON array of names.
FlowArgs ==
  {[kind |-> "null", names |-> <<>>]}
    \cup {[kind |-> "bare", names |-> <<f>>] : f \in FlowNames}
    \cup {[kind |-> "array", names |-> s] :
            s \in UNION {[1..n -> FlowNames] : n \in 0..MaxFlowLen}}

JSONArrayStringToList(names) == names

\* Mutant: the default order built with the device flow pushed first.
parseFlow_deviceFirst(flow) ==
  IF flow.kind = "null"
    THEN <<FLOW_VALUE_DEVICE, FLOW_VALUE_REFRESH, FLOW_VALUE_PASSWORD, FLOW_VALUE_CODE>>
    ELSE IF flow.kind = "bare"
      THEN <<flow.names[1]>>
      ELSE JSONArrayStringToList(flow.names)

parseFlow(flow) ==
  IF flow.kind = "null"
    THEN <<FLOW_VALUE_REFRESH, FLOW_VALUE_PASSWORD, FLOW_VALUE_CODE, FLOW_VALUE_DEVICE>>
    ELSE IF flow.kind = "bare"
      THEN <<flow.names[1]>>
      ELSE JSONArrayStringToList(flow.names)

\* ======================================================= OIDC discovery
\* openid_config.c. A URL is the sequence of its pieces, so that
\* oidc_strcat and the trailing slash are what they are on C strings; a URL
\* that is not set (a NULL pointer) is the empty sequence.
NullUrl == <<>>
Slash == "/"
IssuerUrls == {<<"https://iss.example">>, <<"https://iss.example", Slash>>}
OtherIssuerUrl == <<"https://other.example", Slash>>
CONF_ENDPOINT_SUFFIX == <<".well-known/openid-configuration">>

OIDC_EFMT == "OIDC_EFMT"
OIDC_EISSUER == "OIDC_EISSUER"

oidc_strcat(a, b) == a \o b
oidc_strcopy(c) == c

\* struct oidc_account account = {}: every pointer NULL.
EmptyAccount ==
  [issuer_url |-> NullUrl, configuration_endpoint |-> NullUrl,
   authorization_endpoint |-> NullUrl, token_endpoint |-> NullUrl,
   scopes_supported |-> NULL]

account_getIssuerUrl(p) == p.issuer_url
account_getConfigEndpoint(p) == p.configuration_endpoint
account_getScopesSupported(p) == p.scopes_supported
account_setIssuerUrl(p, url) == [p EXCEPT !.issuer_url = url]
issuer_setConfigurationEndpoint(p, url) == [p EXCEPT !.configuration_endpoint = url]

\* The issuer-metadata block of an account: what the discovery document
\* provides (spec 3). The configuration endpoint is where the document is
\* fetched from, not part of it.
Metadata(p) ==
  [authorization_endpoint |-> p.authorization_endpoint,
   token_endpoint |-> p.token_endpoint,
   scopes_supported |-> p.scopes_supported]
NoMetadata ==
  [authorization_endpoint |-> NullUrl, token_endpoint |-> NullUrl,
   scopes_supported |-> NULL]
MetadataEmpty(p) == Metadata(p) = NoMetadata
MetadataFull(p) == p.authorization_endpoint /= NullUrl /\ p.token_endpoint /= NullUrl

\* The answers to the discovery GET: no body (transport or TLS failure), or
\* a document in which any required field may be missing (NullUrl) and
\* the optional scopes_supported may be absent (NULL).
Documents ==
  [issuer : IssuerUrls \cup {OtherIssuerUrl, NullUrl},
   authorization_endpoint : {NullUrl, <<"https://iss.example", Slash, "auth">>},
   token_endpoint : {NullUrl, <<"https://iss.example", Slash, "token">>},
   scopes_supported : {NULL, "openid profile"}]
NoDocument ==
  [issuer |-> NullUrl, authorization_endpoint |-> NullUrl, token_endpoint |-> NullUrl,
   scopes_supported |-> NULL]
DiscoveryResponses ==
  {[body |-> FALSE, doc |-> NoDocument]} \cup {[body |-> TRUE, doc |-> d] : d \in Documents}

\* HTTP adapter (spec 4.1): the body, or NULL with oidc_errno set.
httpsGET(url, cert_path, resp) ==
  IF resp.body THEN [res |-> resp.doc, oidc_errno |-> OIDC_SUCCESS, null |-> FALSE]
               ELSE [res |-> NoDocument, oidc_errno |-> OIDC_ECURL, null |-> TRUE]

\* The issuer comparison normalises a trailing slash (spec 4.2).
stripSlash(url) ==
  IF Len(url) > 0 /\ url[Len(url)] = Slash THEN SubSeq(url, 1, Len(url) - 1) ELSE url

\* Discovery document parser (spec 4.2): a missing required field is
\* OIDC_EFMT, an issuer other than the configured one OIDC_EISSUER, and
\* only a document that passes both populates the account.
parseOpenidConfiguration(res, p) ==
  IF res.issuer = NullUrl \/ res.authorization_endpoint = NullUrl
       \/ res.token_endpoint = NullUrl
    THEN [account |-> p, ret |-> OIDC_EFMT]
    ELSE IF stripSlash(res.issuer) /= stripSlash(account_getIssuerUrl(p))
      THEN [account |-> p, ret |-> OIDC_EISSUER]
      ELSE [account |-> [p EXCEPT !.authorization_endpoint = res.authorization_endpoint,
                                  !.token_endpoint = res.token_endpoint,
                                  !.scopes_supported = res.scopes_supported],
            ret |-> OIDC_SUCCESS]

\* Mutant: the configuration endpoint stored with the setter of the token
\* endpoint.
getIssuerConfig_wrongSetter(p, e0, resp) ==
  LET configuration_endpoint == oidc_strcat(account_getIssuerUrl(p), CONF_ENDPOINT_SUFFIX)
      q == [p EXCEPT !.token_endpoint = configuration_endpoint]
      get == httpsGET(configuration_endpoint, NULL, resp)
  IN IF get.null
       THEN [account |-> q, oidc_errno |-> get.oidc_errno, ret |-> get.oidc_errno]
       ELSE LET r == parseOpenidConfiguration(get.res, q)
            IN [account |-> r.account, oidc_errno |-> e0, ret |-> r.ret]

\* Mutant: an account whose configuration endpoint is set is taken to have
\* been discovered already.
getIssuerConfig_cachedEndpoint(p, e0, resp) ==
  IF account_getConfigEndpoint(p) /= NullUrl
    THEN [account |-> p, oidc_errno |-> e0, ret |-> OIDC_SUCCESS]
    ELSE LET configuration_endpoint == oidc_strcat(account_getIssuerUrl(p), CONF_ENDPOINT_SUFFIX)
             q == issuer_setConfigurationEndpoint(p, configuration_endpoint)
             get == httpsGET(account_getConfigEndpoint(q), NULL, resp)
         IN IF get.null
              THEN [account |-> q, oidc_errno |-> get.oidc_errno, ret |-> get.oidc_errno]
              ELSE LET r == parseOpenidConfiguration(get.res, q)
                   IN [account |-> r.account, oidc_errno |-> e0, ret |-> r.ret]

\* --------------------------------------------------- openid_config.c:17
\* The result: the account, oidc_errno and the return value after the call.
getIssuerConfig(p, e0, resp) ==
  LET configuration_endpoint == oidc_strcat(account_getIssuerUrl(p), CONF_ENDPOINT_SUFFIX)
      q == issuer_setConfigurationEndpoint(p, configuration_endpoint)
      get == httpsGET(account_getConfigEndpoint(q), NULL, resp)
  IN IF get.null
       THEN [account |-> q, oidc_errno |-> get.oidc_errno, ret |-> get.oidc_errno]
       ELSE LET r == parseOpenidConfiguration(get.res, q)
            IN [account |-> r.account, oidc_errno |-> e0, ret |-> r.ret]

\* secFreeAccountContent: every buffer of the record wiped and freed.
secFreeAccountContent(p) == EmptyAccount

\* --------------------------------------------------- openid_config.c:32
\* The result: the scopes returned and the ephemeral record as it is left
\* behind on return.
getScopesSupportedFor(issuer_url, e0, resp) ==
  LET account0 == account_setIssuerUrl(EmptyAccount, oidc_strcopy(issuer_url))
      r == getIssuerConfig(account0, e0, resp)
  IN IF r.ret /= OIDC_SUCCESS
       THEN [ret |-> NULL, err |-> r.ret, oidc_errno |-> r.oidc_errno, account |-> r.account]
       ELSE [ret |-> oidc_strcopy(account_getScopesSupported(r.account)),
             err |-> r.ret, oidc_errno |-> r.oidc_errno,
             account |-> secFreeAccountContent(r.account)]

\* No discovery call made yet. n counts the calls of getIssuerConfig up to
\* two; same says that the last call got the answer the call before it got.
NoDisc ==
  [account |-> EmptyAccount, n |-> 0, ret |-> OIDC_SUCCESS,
   resp |-> [body |-> FALSE, doc |-> NoDocument], same |-> FALSE,
   prev |-> [account |-> EmptyAccount, ret |-> OIDC_SUCCESS],
   eph |-> [called |-> FALSE, ret |-> NULL, err |-> OIDC_SUCCESS, account |-> EmptyAccount]]

\* =========================================================== daemonize
\* part_000:19. Every process runs the one function; a process is known by
\* its role (the original process, the child of the first fork, the
\* grandchild of the second), has its own pid and its own copy of the local
\* variable pid, and is at a line of daemonize (pc), has exited, or has
\* returned from it.
MaxPid == 4
OriginalPid == 1
ChildPids == (OriginalPid + 1)..MaxPid

Roles == {"original", "child", "grandchild"}
EXIT_SUCCESS == "EXIT_SUCCESS"
EXIT_FAILURE == "EXIT_FAILURE"
STDIN_FILENO == 0
STDERR_FILENO == 2

NoProcess == [pc |-> "none", self |-> 0, pid |-> 0, fd |-> 0, status |-> "none"]
Process(self, pc) == [pc |-> pc, self |-> self, pid |-> 0, fd |-> 0, status |-> "running"]

DaemonStart ==
  [procs |-> [r \in Roles |-> IF r = "original" THEN Process(OriginalPid, "fork1")
                              ELSE NoProcess],
   printed |-> <<>>]

\* part_000:21-26 and 31-38: the branch on what fork() returned.
forkBranch(pid) ==
  IF pid = -1 THEN "failed" ELSE IF pid > 0 THEN "parent" ELSE "child"

\* Mutant: the process prints its own pid.
printedPid_getpid(proc) == proc.self

\* part_000:35: the pid printed for OIDC_PID_ENV_NAME.
printedPid(proc) == proc.pid

exit(proc, status) == [proc EXCEPT !.pc = "exited", !.status = status]

\* ---------------------------------------------------------------- state
VARIABLES
  account,     \* the loaded account record
  now,         \* the wall clock, what time(NULL) returns
  oidc_errno,  \* the global error variable
  last,        \* the last call of an entry point: arguments, branch, result
  orch,        \* the flow orchestrator's request in progress or just finished
  disc,        \* discovery: the account's issuer part, the last calls
  daemon       \* daemonize: the processes and what was printed

vars == <<account, now, oidc_errno, last, orch, disc, daemon>>

NoAccount ==
  [access_token |-> NULL, expires_at |-> 0, refresh_token |-> NULL,
   username |-> NULL, password |-> NULL, pw_death |-> 0]

NoCall ==
  [fn |-> "none", path |-> "none", driver |-> "none", ret |-> NULL,
   min_valid_period |-> 0, scope |-> NULL]

\* The record of a call of fn with result r.
Call(fn, r, min_valid_period, scope) ==
  [fn |-> fn, path |-> r.path, driver |-> r.driver, ret |-> r.ret,
   min_valid_period |-> min_valid_period, scope |-> scope]

NoFlow == [kind |-> "null", names |-> <<>>]

Idle ==
  [pc |-> "idle", flow |-> NoFlow, flows |-> <<>>, idx |-> 0,
   code |-> NULL, device_code |-> NULL,
   scope |-> NULL, skip |-> OIDC_ENOFLOW, err |-> OIDC_SUCCESS, token |-> NULL,
   cache |-> FALSE, min_valid_period |-> 0, tried |-> <<>>, start |-> NoAccount]

\* The loader hands over a decrypted account: no access token yet, a
\* refresh token and credentials that may be absent or empty.
Init ==
  /\ account \in [access_token : {NULL}, expires_at : {0},
                  refresh_token : {"", "RT1"},
                  username : {NULL, "user"}, password : {"", "pw"},
                  pw_death : {0}]
  /\ now = StartTime
  /\ oidc_errno = OIDC_SUCCESS
  /\ last = NoCall
  /\ orch = Idle
  /\ disc = NoDisc
  /\ daemon = DaemonStart

\* ------------------------------------------- clock and lifetime controller
\* Credential lifetime controller (spec 4.6), for the password: once
\* pw_death (0 = forever) has passed the password field is wiped, the rest
\* of the account stays as it is.
lifetimeScan(p, t) ==
  IF p.pw_death /= 0 /\ p.pw_death <= t THEN [p EXCEPT !.password = NULL] ELSE p

\* The controller runs on the timer: the clock advances, the scan follows.
Tick ==
  /\ now + 1 \in Times
  /\ now' = now + 1
  /\ account' = lifetimeScan(account, now + 1)
  /\ UNCHANGED <<oidc_errno, last, orch, disc, daemon>>

\* ------------------------------------------- the entry points, called alone
RefreshEntry == "getAccessTokenUsingRefreshFlow"
PasswordEntry == "getAccessTokenUsingPasswordFlow"
AuthCodeEntry == "getAccessTokenUsingAuthCodeFlow"
DeviceEntry == "getAccessTokenUsingDeviceFlow"

Apply(fn, r, min_valid_period, scope) ==
  /\ account' = r.account
  /\ oidc_errno' = r.oidc_errno
  /\ last' = Call(fn, r, min_valid_period, scope)

\* The issuer's answer is an input of the call; calls whose result does not
\* depend on it (no request was made) have one outcome.
RefreshRequest ==
  /\ \E min_valid_period \in Periods, scope \in Scopes :
       \E r \in {getAccessTokenUsingRefreshFlow(account, oidc_errno, min_valid_period,
                                                scope, now, resp) : resp \in RefreshResponses} :
         Apply(RefreshEntry, r, min_valid_period, scope)
  /\ UNCHANGED <<now, orch, disc, daemon>>

PasswordRequest ==
  /\ \E r \in {getAccessTokenUsingPasswordFlow(account, oidc_errno, now, resp) :
                 resp \in ExchangeResponses} :
       Apply(PasswordEntry, r, 0, NULL)
  /\ UNCHANGED <<now, orch, disc, daemon>>

AuthCodeRequest ==
  /\ \E r \in {getAccessTokenUsingAuthCodeFlow(account, oidc_errno, "C1", now, resp) :
                 resp \in ExchangeResponses} :
       Apply(AuthCodeEntry, r, 0, NULL)
  /\ UNCHANGED <<now, orch, disc, daemon>>

DeviceRequest ==
  /\ \E r \in {getAccessTokenUsingDeviceFlow(account, oidc_errno, "DC1", now, resp) :
                 resp \in ExchangeResponses} :
       Apply(DeviceEntry, r, 0, NULL)
  /\ UNCHANGED <<now, orch, disc, daemon>>

\* ------------------------------------------------ the flow orchestrator
\* get_access_token (spec 4.5): the cache short-circuit, then the flows of
\* the order one after the other. A step is a success (the run returns the
\* account's access token), a skip (the run goes on with the next flow and
\* keeps the most specific skip reason) or a hard failure (the run stops).
Prec(e) == IF e = OIDC_ECRED THEN 2 ELSE IF e = OIDC_ENOREFRSH THEN 1 ELSE 0

keepSkip(kept, e) == IF Prec(e) > Prec(kept) THEN e ELSE kept

\* All entries skipped: the run returns the skip reason it kept.
Settle(o) ==
  IF o.pc = "running" /\ o.idx > Len(o.flows)
    THEN [o EXCEPT !.pc = "done", !.err = o.skip, !.token = NULL]
    ELSE o

Tried(flow, outcome, r, kept, resp) ==
  [flow |-> flow, outcome |-> outcome, driver |-> r.driver, ret |-> r.ret,
   err |-> r.oidc_errno, kept |-> kept,
   parsed |-> IF r.driver /= "none" /\ outcome = "success" THEN resp.access_token ELSE NULL]

isSkip(e) == e \in SkipErrors

\* What a step with result r makes of the run; ok says the flow succeeded.
\* The orchestrator tells a skip from a hard failure by the error code.
Advance(flow, r, ok, resp) ==
  IF ok
    THEN [orch EXCEPT !.pc = "done", !.err = OIDC_SUCCESS,
                      !.token = account_getAccessToken(r.account),
                      !.tried = Append(@, Tried(flow, "success", r, orch.skip, resp))]
    ELSE IF isSkip(r.oidc_errno) \/ r.path = "nocode"
      THEN LET e == IF r.path = "nocode" THEN OIDC_ENOFLOW ELSE r.oidc_errno
               k == keepSkip(orch.skip, e)
           IN Settle([orch EXCEPT !.idx = @ + 1, !.skip = k,
                                  !.tried = Append(@, Tried(flow, "skip", r, k, resp))])
      ELSE [orch EXCEPT !.pc = "done", !.err = r.oidc_errno, !.token = NULL,
                        !.tried = Append(@, Tried(flow, "fail", r, orch.skip, resp))]

\* The freshness request (min_valid_period, scope) decides the cache
\* short-circuit; past it the run keeps the scope for the refresh request.
OrchStart ==
  /\ orch.pc = "idle"
  /\ \E min_valid_period \in Periods, scope \in Scopes, flow \in FlowArgs,
        code \in {NULL, "C1"}, device_code \in {NULL, "DC1"} :
       IF cacheHit(account, min_valid_period, scope, now)
         THEN orch' = [Idle EXCEPT !.pc = "done", !.cache = TRUE,
                                   !.min_valid_period = min_valid_period,
                                   !.token = account_getAccessToken(account)]
         ELSE orch' = Settle([Idle EXCEPT !.pc = "running", !.flow = flow,
                                          !.flows = parseFlow(flow),
                                          !.idx = 1, !.code = code,
                                          !.device_code = device_code, !.scope = scope,
                                          !.start = account])
  /\ UNCHANGED <<account, now, oidc_errno, last, disc, daemon>>

Running(flow) == orch.pc = "running" /\ orch.flows[orch.idx] = flow

StepRefresh ==
  /\ Running(FLOW_VALUE_REFRESH)
  /\ \E resp \in RefreshResponses :
       LET r == tryRefreshFlow(account, oidc_errno, orch.scope, now, resp)
       IN /\ Apply("tryRefreshFlow", r, 0, orch.scope)
          /\ orch' = Advance(FLOW_VALUE_REFRESH, r, r.ret /= NULL, resp)
  /\ UNCHANGED <<now, disc, daemon>>

StepPassword ==
  /\ Running(FLOW_VALUE_PASSWORD)
  /\ \E resp \in ExchangeResponses :
       LET r == getAccessTokenUsingPasswordFlow(account, oidc_errno, now, resp)
       IN /\ Apply(PasswordEntry, r, 0, NULL)
          /\ orch' = Advance(FLOW_VALUE_PASSWORD, r, r.ret = OIDC_SUCCESS, resp)
  /\ UNCHANGED <<now, disc, daemon>>

\* No code came with the request: the flow is skipped, nothing is called.
NoCode == Out(account, oidc_errno, NULL, "nocode", "none")

StepCode ==
  /\ Running(FLOW_VALUE_CODE)
  /\ \E resp \in ExchangeResponses :
       LET r == IF orch.code = NULL THEN NoCode
                ELSE getAccessTokenUsingAuthCodeFlow(account, oidc_errno, orch.code, now, resp)
       IN /\ Apply(IF orch.code = NULL THEN "none" ELSE AuthCodeEntry,
                   r, 0, NULL)
          /\ orch' = Advance(FLOW_VALUE_CODE, r, r.ret = OIDC_SUCCESS, resp)
  /\ UNCHANGED <<now, disc, daemon>>

StepDevice ==
  /\ Running(FLOW_VALUE_DEVICE)
  /\ \E resp \in ExchangeResponses :
       LET r == IF orch.device_code = NULL THEN NoCode
                ELSE getAccessTokenUsingDeviceFlow(account, oidc_errno, orch.device_code,
                                                   now, resp)
       IN /\ Apply(IF orch.device_code = NULL THEN "none" ELSE DeviceEntry,
                   r, 0, NULL)
          /\ orch' = Advance(FLOW_VALUE_DEVICE, r, r.ret = OIDC_SUCCESS, resp)
  /\ UNCHANGED <<now, disc, daemon>>

Next ==
  \/ Tick
  \/ RefreshRequest
  \/ PasswordRequest
  \/ AuthCodeRequest
  \/ DeviceRequest

Spec == Init /\ [][Next]_vars

\* One request to the orchestrator, arriving at StartTime on an account in
\* any state a loaded account can be in by then: fresh from the loader, or
\* holding a token of an earlier flow that has expired, expires this second,
\* is still valid or has no known expiry (0), and a refresh token that may
\* have been revoked.
OrchAccounts ==
  {p \in [access_token : {NULL, "AT1"},
          expires_at : {0} \cup (StartTime - 1)..(StartTime + MaxExpiresIn),
          refresh_token : {NULL, "", "RT1"},
          username : {NULL, "user"}, password : {"", "pw"},
          pw_death : {0}] :
     p.access_token = NULL => p.expires_at = 0}

InitOrch ==
  /\ account \in OrchAccounts
  /\ now = StartTime
  /\ oidc_errno = OIDC_SUCCESS
  /\ last = NoCall
  /\ orch = Idle
  /\ disc = NoDisc
  /\ daemon = DaemonStart

NextOrch ==
  \/ OrchStart
  \/ StepRefresh
  \/ StepPassword
  \/ StepCode
  \/ StepDevice

SpecOrch == InitOrch /\ [][NextOrch]_vars

\* ------------------------------------------------- discovery, called alone
\* getIssuerConfig on the loaded account; disc keeps the call before it.
Discover ==
  /\ \E resp \in DiscoveryResponses :
       LET r == getIssuerConfig(disc.account, oidc_errno, resp)
       IN /\ disc' = [disc EXCEPT !.account = r.account,
                                  !.n = IF @ < 2 THEN @ + 1 ELSE @,
                                  !.ret = r.ret, !.resp = resp,
                                  !.same = disc.n >= 1 /\ resp = disc.resp,
                                  !.prev = [account |-> disc.account, ret |-> disc.ret]]
          /\ oidc_errno' = r.oidc_errno
  /\ UNCHANGED <<account, now, last, orch, daemon>>

ScopesRequest ==
  /\ \E issuer_url \in IssuerUrls :
       \E r \in {getScopesSupportedFor(issuer_url, oidc_errno, resp) :
                   resp \in DiscoveryResponses} :
         /\ disc' = [disc EXCEPT !.eph = [called |-> TRUE, ret |-> r.ret,
                                           err |-> r.err, account |-> r.account]]
         /\ oidc_errno' = r.oidc_errno
  /\ UNCHANGED <<account, now, last, orch, daemon>>

\* An account whose issuer URL is configured and that was never discovered.
InitDisc ==
  /\ account = NoAccount
  /\ now = StartTime
  /\ oidc_errno = OIDC_SUCCESS
  /\ last = NoCall
  /\ orch = Idle
  /\ disc \in {[NoDisc EXCEPT !.account = account_setIssuerUrl(EmptyAccount, url)] :
                 url \in IssuerUrls}
  /\ daemon = DaemonStart

NextDisc ==
  \/ Discover
  \/ ScopesRequest

SpecDisc == InitDisc /\ [][NextDisc]_vars

\* ------------------------------------------------ the password lifetime
\* An account loaded with a username and a password that is kept forever
\* (pw_death = 0) or until an instant still to come.
InitLife ==
  /\ account \in [access_token : {NULL}, expires_at : {0},
                  refresh_token : {"", "RT1"},
                  username : {"user"}, password : {"pw"},
                  pw_death : {0} \cup (Times \ {StartTime})]
  /\ now = StartTime
  /\ oidc_errno = OIDC_SUCCESS
  /\ last = NoCall
  /\ orch = Idle
  /\ disc = NoDisc
  /\ daemon = DaemonStart

NextLife ==
  \/ Tick
  \/ PasswordRequest
  \/ RefreshRequest

SpecLife == InitLife /\ [][NextLife]_vars

\* ------------------------------------------------------------ daemonize
Exists(r) == daemon.procs[r].status /= "none"
At(r, pc) == daemon.procs[r].status = "running" /\ daemon.procs[r].pc = pc
UsedPids == {daemon.procs[r].self : r \in {r \in Roles : Exists(r)}}
Forked(r) == IF r = "original" THEN "child" ELSE "grandchild"

\* fork() at line 21 (by the original process) or 31 (by the child): it
\* fails and returns -1, or a new process starts right behind the call with
\* pid = 0 while the caller gets the new process's pid. Each process then
\* takes its branch.
Fork(r, at, parent, child, failed) ==
  /\ At(r, at)
  /\ \/ daemon' = [daemon EXCEPT !.procs[r].pid = -1,
                                 !.procs[r].pc = IF forkBranch(-1) = "failed" THEN failed
                                                 ELSE IF forkBranch(-1) = "parent"
                                                   THEN parent ELSE child]
     \/ \E new \in ChildPids \ UsedPids :
          LET branch(pid) == IF forkBranch(pid) = "failed" THEN failed
                             ELSE IF forkBranch(pid) = "parent" THEN parent ELSE child
          IN daemon' = [daemon EXCEPT !.procs[r].pid = new,
                                      !.procs[r].pc = branch(new),
                                      !.procs[Forked(r)] = Process(new, branch(0))]
  /\ UNCHANGED <<account, now, oidc_errno, last, orch, disc>>

Fork1 == Fork("original", "fork1", "exit1", "setsid", "fail1")
Fork2 == Fork("child", "fork2", "print", "chdir", "fail2")

\* Lines 22-23 and 32-33: logger(ALERT, ...); exit(EXIT_FAILURE).
ForkFailed ==
  /\ \E r \in Roles :
       /\ At(r, "fail1") \/ At(r, "fail2")
       /\ daemon' = [daemon EXCEPT !.procs[r] = exit(@, EXIT_FAILURE)]
  /\ UNCHANGED <<account, now, oidc_errno, last, orch, disc>>

\* Line 25: exit(EXIT_SUCCESS).
ParentExit ==
  /\ \E r \in Roles :
       /\ At(r, "exit1")
       /\ daemon' = [daemon EXCEPT !.procs[r] = exit(@, EXIT_SUCCESS)]
  /\ UNCHANGED <<account, now, oidc_errno, last, orch, disc>>

\* Lines 27-29: setsid(), which may fail: exit(EXIT_FAILURE).
Setsid ==
  /\ \E r \in Roles :
       /\ At(r, "setsid")
       /\ \/ daemon' = [daemon EXCEPT !.procs[r].pc = "signal"]
          \/ daemon' = [daemon EXCEPT !.procs[r] = exit(@, EXIT_FAILURE)]
  /\ UNCHANGED <<account, now, oidc_errno, last, orch, disc>>

\* Line 30: signal(SIGHUP, SIG_IGN).
IgnoreHup ==
  /\ \E r \in Roles :
       /\ At(r, "signal")
       /\ daemon' = [daemon EXCEPT !.procs[r].pc = "fork2"]
  /\ UNCHANGED <<account, now, oidc_errno, last, orch, disc>>

\* Lines 35-36: the two printf.
PrintPid ==
  /\ \E r \in Roles :
       /\ At(r, "print")
       /\ daemon' = [daemon EXCEPT
                       !.procs[r].pc = "exit2",
                       !.printed = Append(@, [by |-> daemon.procs[r].self,
                                              pid |-> printedPid(daemon.procs[r])])]
  /\ UNCHANGED <<account, now, oidc_errno, last, orch, disc>>

\* Line 37: exit(EXIT_SUCCESS).
PrinterExit ==
  /\ \E r \in Roles :
       /\ At(r, "exit2")
       /\ daemon' = [daemon EXCEPT !.procs[r] = exit(@, EXIT_SUCCESS)]
  /\ UNCHANGED <<account, now, oidc_errno, last, orch, disc>>

\* Lines 39-40: chdir("/"), umask(0).
Chdir ==
  /\ \E r \in Roles :
       /\ At(r, "chdir")
       /\ daemon' = [daemon EXCEPT !.procs[r].pc = "umask"]
  /\ UNCHANGED <<account, now, oidc_errno, last, orch, disc>>

Umask ==
  /\ \E r \in Roles :
       /\ At(r, "umask")
       /\ daemon' = [daemon EXCEPT !.procs[r].pc = "close", !.procs[r].fd = STDIN_FILENO]
  /\ UNCHANGED <<account, now, oidc_errno, last, orch, disc>>

\* Lines 41-43: close of the three standard descriptors, one after the other.
CloseStd ==
  /\ \E r \in Roles :
       /\ At(r, "close")
       /\ daemon' = IF daemon.procs[r].fd = STDERR_FILENO
                      THEN [daemon EXCEPT !.procs[r].pc = "open",
                                          !.procs[r].fd = STDIN_FILENO]
                      ELSE [daemon EXCEPT !.procs[r].fd = @ + 1]
  /\ UNCHANGED <<account, now, oidc_errno, last, orch, disc>>

\* Lines 44-46: /dev/null opened three times, taking their place.
OpenNull ==
  /\ \E r \in Roles :
       /\ At(r, "open")
       /\ daemon' = IF daemon.procs[r].fd = STDERR_FILENO
                      THEN [daemon EXCEPT !.procs[r].pc = "return"]
                      ELSE [daemon EXCEPT !.procs[r].fd = @ + 1]
  /\ UNCHANGED <<account, now, oidc_errno, last, orch, disc>>

\* Line 47: daemonize returns to its caller.
Return ==
  /\ \E r \in Roles :
       /\ At(r, "return")
       /\ daemon' = [daemon EXCEPT !.procs[r].pc = "returned",
                                   !.procs[r].status = "returned"]
  /\ UNCHANGED <<account, now, oidc_errno, last, orch, disc>>

InitDaemon ==
  /\ account = NoAccount
  /\ now = StartTime
  /\ oidc_errno = OIDC_SUCCESS
  /\ last = NoCall
  /\ orch = Idle
  /\ disc = NoDisc
  /\ daemon = DaemonStart

NextDaemon ==
  \/ Fork1
  \/ ForkFailed
  \/ ParentExit
  \/ Setsid
  \/ IgnoreHup
  \/ Fork2
  \/ PrintPid
  \/ PrinterExit
  \/ Chdir
  \/ Umask
  \/ CloseStd
  \/ OpenNull
  \/ Return

SpecDaemon == InitDaemon /\ [][NextDaemon]_vars

\* ======================================================== the claims
\* A step of Spec that leaves the clock alone is a call of an entry point,
\* recorded in last'; the unprimed account is the account it was called on.
Called(fn) == now' = now /\ last'.fn = fn

\* C1: whenever getAccessTokenUsingRefreshFlow, called with a
\* min_valid_period >= 0, returns the cached access token without running a
\* flow, that token's expires_at - now exceeds min_valid_period at the time
\* of the call.
C1_CachedTokenValidLongEnough ==
  [][(Called(RefreshEntry) /\ last'.path = "cache" /\ last'.min_valid_period >= 0)
       => /\ last'.ret = account_getAccessToken(account')
          /\ account' = account
          /\ account_getTokenExpiresAt(account') - now' > last'.min_valid_period]_vars

\* C1 witness: a cache hit for a request of one second of validity.
C1_Witness ==
  /\ last.fn = RefreshEntry
  /\ last.path = "cache"
  /\ last.min_valid_period = 1

\* C2 as stated: no scope override, min_valid_period not FORCE_NEW_TOKEN, a
\* non-empty cached token and expires_at - now > min_valid_period make
\* getAccessTokenUsingRefreshFlow return the cached token with no driver run.
C2_Original_CacheHit ==
  [][(/\ Called(RefreshEntry)
      /\ last'.scope = NULL
      /\ last'.min_valid_period /= FORCE_NEW_TOKEN
      /\ strValid(account_getAccessToken(account))
      /\ account_getTokenExpiresAt(account) - now > last'.min_valid_period)
       => /\ last'.path = "cache"
          /\ last'.ret = account_getAccessToken(account)
          /\ last'.driver = "none"]_vars

\* C2 amended: the same with the token also unexpired (expires_at - now > 0):
\* then the cached token is returned, no driver runs and the account is as
\* it was.
C2_CacheHit ==
  [][(/\ Called(RefreshEntry)
      /\ last'.scope = NULL
      /\ last'.min_valid_period /= FORCE_NEW_TOKEN
      /\ strValid(account_getAccessToken(account))
      /\ account_getTokenExpiresAt(account) - now > 0
      /\ account_getTokenExpiresAt(account) - now > last'.min_valid_period)
       => /\ last'.path = "cache"
          /\ last'.ret = account_getAccessToken(account)
          /\ last'.driver = "none"
          /\ account' = account]_vars

\* C2 witness: the cached token returned for min_valid_period = 0.
C2_Witness ==
  /\ last.fn = RefreshEntry
  /\ last.scope = NULL
  /\ last.min_valid_period = 0
  /\ last.path = "cache"
  /\ last.driver = "none"
  /\ last.ret = account_getAccessToken(account)
  /\ strValid(last.ret)

\* C3: with min_valid_period = FORCE_NEW_TOKEN or a scope override,
\* getAccessTokenUsingRefreshFlow never takes the cache path: it goes on to
\* tryRefreshFlow (which skips or runs the refresh driver).
C3_CacheDisabled ==
  (last.fn = RefreshEntry /\ (last.min_valid_period = FORCE_NEW_TOKEN \/ last.scope /= NULL))
    => /\ last.path \in {"skip", "driver"}
       /\ last.path = "driver" <=> last.driver = FLOW_VALUE_REFRESH
       /\ last.path = "skip" => last.ret = NULL

\* C3 witness: FORCE_NEW_TOKEN on an account whose token is still valid; the
\* refresh driver ran (and failed, so the valid token is still the cached one).
C3_Witness ==
  /\ last.fn = RefreshEntry
  /\ last.min_valid_period = FORCE_NEW_TOKEN
  /\ last.scope = NULL
  /\ last.path = "driver"
  /\ last.ret = NULL
  /\ strValid(account_getAccessToken(account))
  /\ account_getTokenExpiresAt(account) - now >= MaxExpiresIn

\* A step of SpecOrch that attempts the next flow of the order.
Attempted(flow) ==
  /\ Len(orch'.tried) = Len(orch.tried) + 1
  /\ orch'.tried[Len(orch'.tried)].flow = flow

\* The attempt i of the run ran a driver, and the driver did not succeed.
DriverFailed(i) ==
  LET a == orch.tried[i]
  IN /\ a.driver /= "none"
     /\ IF a.flow = FLOW_VALUE_REFRESH THEN a.ret = NULL ELSE a.ret /= OIDC_SUCCESS

DefaultOrder ==
  <<FLOW_VALUE_REFRESH, FLOW_VALUE_PASSWORD, FLOW_VALUE_CODE, FLOW_VALUE_DEVICE>>

\* C4: once a flow driver has returned an error, no later flow of the order
\* is attempted, the run is over and that error is what the caller receives;
\* in particular a refresh answered OIDC_EREVOKED is the run's last attempt.
C4_HardFailureStops ==
  \A i \in DOMAIN orch.tried :
    /\ DriverFailed(i) =>
         /\ i = Len(orch.tried)
         /\ orch.pc = "done"
         /\ orch.err = orch.tried[i].err
         /\ orch.err \notin SkipErrors \cup {OIDC_SUCCESS}
         /\ orch.token = NULL
    /\ (orch.tried[i].flow = FLOW_VALUE_REFRESH /\ orch.tried[i].err = OIDC_EREVOKED
          /\ orch.tried[i].driver = FLOW_VALUE_REFRESH) =>
         ~ \E j \in DOMAIN orch.tried : j > i

\* C4 witness: the default order, the refresh answered OIDC_EREVOKED, and
\* the run over with that error after this one attempt.
C4_Witness ==
  /\ orch.pc = "done"
  /\ orch.flows = DefaultOrder
  /\ Len(orch.tried) = 1
  /\ DriverFailed(1)
  /\ orch.tried[1].err = OIDC_EREVOKED
  /\ orch.err = OIDC_EREVOKED
  /\ strValid(account_getUsername(account)) /\ strValid(account_getPassword(account))

EntryPoints == {RefreshEntry, PasswordEntry, AuthCodeEntry, DeviceEntry}

\* C5 as stated: each of the four entry points short-circuits on the cached
\* token, without running its driver, only when the token is non-empty and
\* its expires_at is greater than now.
C5_ShortCircuitOnlyIfPresent ==
  [][(\E fn \in EntryPoints : Called(fn) /\ last'.path = "cache")
       => /\ strValid(account_getAccessToken(account))
          /\ account_getTokenExpiresAt(account) > now]_vars

\* C6: without a valid refresh token tryRefreshFlow returns NULL, sets
\* oidc_errno to OIDC_ENOREFRSH and runs no driver; the orchestrator counts it
\* as a skip and goes on with the next flow of the order, if there is one.
C6_RefreshSkip ==
  [][(Attempted(FLOW_VALUE_REFRESH) /\ ~account_refreshTokenIsValid(account))
       => /\ last'.fn = "tryRefreshFlow"
          /\ last'.ret = NULL
          /\ last'.driver = "none"
          /\ oidc_errno' = OIDC_ENOREFRSH
          /\ account' = account
          /\ orch'.tried[Len(orch'.tried)].outcome = "skip"
          /\ orch.idx < Len(orch.flows) => (orch'.pc = "running" /\ orch'.idx = orch.idx + 1)]_vars

\* C6 witness: the refresh was skipped and the run goes on with a later flow.
C6_Witness ==
  /\ orch.pc = "running"
  /\ orch.idx = 2
  /\ orch.tried[1].flow = FLOW_VALUE_REFRESH
  /\ orch.tried[1].outcome = "skip"
  /\ last.fn = "tryRefreshFlow"
  /\ last.ret = NULL
  /\ oidc_errno = OIDC_ENOREFRSH

\* C7: when getAccessTokenUsingPasswordFlow reaches tryPasswordFlow with the
\* username or the password absent or empty, it returns OIDC_ECRED, sets
\* oidc_errno to OIDC_ECRED and runs no driver; the password driver runs only
\* when both are non-empty.
C7_PasswordPrecondition ==
  [][(Called(PasswordEntry) /\ last'.path /= "cache")
       => LET cred == /\ strValid(account_getUsername(account))
                      /\ strValid(account_getPassword(account))
          IN /\ ~cred => /\ last'.ret = OIDC_ECRED
                         /\ oidc_errno' = OIDC_ECRED
                         /\ last'.driver = "none"
                         /\ account' = account
             /\ cred <=> last'.driver = FLOW_VALUE_PASSWORD]_vars

\* C7 witness: a password-flow attempt refused for a missing password while
\* the username is there.
C7_Witness ==
  /\ last.fn = PasswordEntry
  /\ last.path = "skip"
  /\ last.ret = OIDC_ECRED
  /\ oidc_errno = OIDC_ECRED
  /\ strValid(account_getUsername(account))
  /\ ~strValid(account_getPassword(account))

\* The skip reason of a flow: what its missing precondition is reported as.
SkipReason(flow) ==
  IF flow = FLOW_VALUE_REFRESH THEN OIDC_ENOREFRSH
  ELSE IF flow = FLOW_VALUE_PASSWORD THEN OIDC_ECRED
  ELSE OIDC_ENOFLOW

Skipped(i) == orch.tried[i].outcome = "skip"

AllSkipped ==
  /\ orch.pc = "done"
  /\ ~orch.cache
  /\ Len(orch.tried) = Len(orch.flows)
  /\ \A i \in DOMAIN orch.tried : Skipped(i)

FlowSet == {orch.flows[i] : i \in DOMAIN orch.flows}

SkipPair(i) ==
  /\ i + 1 \in DOMAIN orch.tried
  /\ Skipped(i) /\ Skipped(i + 1)

C10_SkipsToDevice ==
  (/\ orch.pc = "done"
   /\ ~orch.cache
   /\ orch.flows = DefaultOrder
   /\ ~account_refreshTokenIsValid(orch.start)
   /\ ~strValid(account_getUsername(orch.start))
   /\ ~strValid(account_getPassword(orch.start))
   /\ orch.code = NULL
   /\ orch.device_code /= NULL
   /\ ~ \E i \in DOMAIN orch.tried : DriverFailed(i))
    => /\ Len(orch.tried) = 4
       /\ \A i \in 1..4 : orch.tried[i].flow = DefaultOrder[i]
       /\ \A i \in 1..3 : Skipped(i) /\ orch.tried[i].driver = "none"
       /\ orch.tried[4].outcome = "success"
       /\ orch.tried[4].driver = FLOW_VALUE_DEVICE
       /\ orch.err = OIDC_SUCCESS
       /\ orch.token = orch.tried[4].parsed
       /\ orch.token = account_getAccessToken(account)

Revoked == last.fn = RefreshEntry /\ last.driver = FLOW_VALUE_REFRESH
             /\ last.ret = NULL /\ oidc_errno = OIDC_EREVOKED

\* C11: revocation is sticky. Right after a refresh attempt that returned
\* OIDC_EREVOKED the account has no refresh token; while it has none, every
\* refresh attempt that gets past the cache is skipped with OIDC_ENOREFRSH
\* without a request to the issuer and leaves it without one; and a refresh
\* token only comes back through a flow driver that succeeded.
C11_RevocationSticky ==
  /\ [](Revoked => ~account_refreshTokenIsValid(account))
  /\ [][(~account_refreshTokenIsValid(account) /\ Called(RefreshEntry)
           /\ last'.path /= "cache")
          => (/\ last'.path = "skip"
              /\ last'.driver = "none"
              /\ last'.ret = NULL
              /\ oidc_errno' = OIDC_ENOREFRSH
              /\ ~account_refreshTokenIsValid(account'))]_vars
  /\ [][(~account_refreshTokenIsValid(account) /\ account_refreshTokenIsValid(account'))
          => (/\ now' = now
              /\ last'.driver \in FlowNames \ {FLOW_VALUE_REFRESH}
              /\ last'.ret = OIDC_SUCCESS)]_vars

\* C11 witness: the refresh token was revoked (only a revocation leaves NULL
\* here) and a later refresh attempt has been skipped with OIDC_ENOREFRSH.
C11_Witness ==
  /\ account_getRefreshToken(account) = NULL
  /\ last.fn = RefreshEntry
  /\ last.path = "skip"
  /\ oidc_errno = OIDC_ENOREFRSH

\* The run parsed a flow argument (it got past the cache short-circuit).
Parsed == orch.pc /= "idle" /\ ~orch.cache

\* C13: when no flow order is given, parseFlow(NULL) is exactly
\* [refresh, password, code, device]: four elements in that order.
C13_DefaultFlowOrder ==
  (Parsed /\ orch.flow.kind = "null")
    => /\ Len(orch.flows) = 4
       /\ orch.flows[1] = FLOW_VALUE_REFRESH
       /\ orch.flows[2] = FLOW_VALUE_PASSWORD
       /\ orch.flows[3] = FLOW_VALUE_CODE
       /\ orch.flows[4] = FLOW_VALUE_DEVICE

\* C13 witness: a run started without a flow order, about to try its first flow.
C13_Witness ==
  /\ orch.pc = "running"
  /\ orch.flow.kind = "null"
  /\ orch.idx = 1
  /\ orch.flows[orch.idx] = FLOW_VALUE_REFRESH

\* C14 as stated: whatever the flow argument (NULL, a bare name, a JSON
\* array of names), the parsed flow order holds no entry twice.
C14_NoDuplicateFlows ==
  Parsed => \A i, j \in DOMAIN orch.flows :
              orch.flows[i] = orch.flows[j] => i = j

\* C18: a cached access token that has expired or whose expiry is unknown
\* (expires_at <= now, in particular expires_at = 0) is never served by the
\* cache path of getAccessTokenUsingRefreshFlow, whatever min_valid_period
\* (negative values included); tokenIsValidForSeconds is false for it.
C18_ExpiredNeverCached ==
  /\ [](account_getTokenExpiresAt(account) <= now
          => \A min_valid_period \in Periods :
               ~tokenIsValidForSeconds(account, min_valid_period, now))
  /\ [][(Called(RefreshEntry) /\ account_getTokenExpiresAt(account) <= now)
          => (last'.path /= "cache"
              /\ (last'.path = "skip" => last'.ret = NULL))]_vars

\* C18 witness: a token that expired a second ago was asked for with a
\* negative min_valid_period it would satisfy, and was not served.
C18_Witness ==
  /\ last.fn = RefreshEntry
  /\ last.path = "skip"
  /\ last.scope = NULL
  /\ last.min_valid_period < 0
  /\ last.min_valid_period /= FORCE_NEW_TOKEN
  /\ strValid(account_getAccessToken(account))
  /\ account_getTokenExpiresAt(account) > 0
  /\ account_getTokenExpiresAt(account) <= now
  /\ account_getTokenExpiresAt(account) - now > last.min_valid_period

\* C15 as stated: getScopesSupportedFor has wiped its ephemeral account
\* record when it returns, on the path that returns the scopes as on the
\* path that returns NULL because discovery failed.
C15_EphemeralWiped ==
  disc.eph.called => disc.eph.account = EmptyAccount

\* C16: the issuer-metadata block of an account, loaded or ephemeral, is
\* always either empty or fully populated, and a getIssuerConfig that fails
\* (no body, a missing required field, another issuer) on an account whose
\* metadata was empty leaves it empty.
C16_MetadataAllOrNothing ==
  /\ MetadataEmpty(disc.account) \/ MetadataFull(disc.account)
  /\ MetadataEmpty(disc.eph.account) \/ MetadataFull(disc.eph.account)
  /\ (disc.n >= 1 /\ disc.ret /= OIDC_SUCCESS /\ MetadataEmpty(disc.prev.account))
       => MetadataEmpty(disc.account)
  /\ (disc.eph.called /\ disc.eph.err /= OIDC_SUCCESS)
       => MetadataEmpty(disc.eph.account)

\* C16 witness: discovery of a never-discovered account answered with a
\* complete document of another issuer: OIDC_EISSUER, metadata still empty.
C16_Witness ==
  /\ disc.n = 1
  /\ disc.ret = OIDC_EISSUER
  /\ disc.resp.doc.issuer = OtherIssuerUrl
  /\ MetadataEmpty(disc.account)

\* C17: getIssuerConfig called twice in a row with the same issuer response
\* leaves the account with the issuer metadata, and returns the value, of
\* the first of the two calls.
C17_DiscoveryIdempotent ==
  (disc.n >= 2 /\ disc.same)
    => /\ Metadata(disc.account) = Metadata(disc.prev.account)
       /\ disc.ret = disc.prev.ret

\* C17 witness: two successful discoveries in a row with the same document.
C17_Witness ==
  /\ disc.n >= 2
  /\ disc.same
  /\ disc.ret = OIDC_SUCCESS
  /\ MetadataFull(disc.account)

\* C19: a call of an entry point that returns through the cache, the
\* refresh skip (OIDC_ENOREFRSH) or the password skip (OIDC_ECRED) ran no
\* driver and leaves the account record as it was: tokens, expiry,
\* credentials and issuer metadata keep their values, and the record is
\* neither replaced nor dropped.
C19_FrameWithoutDriver ==
  [][(now' = now /\ last'.fn \in EntryPoints /\ last'.path \in {"cache", "skip"})
       => (/\ last'.driver = "none"
           /\ account' = account
           /\ disc'.account = disc.account)]_vars

\* C19 witness: a password skip on an account that holds a password but no
\* username; the password is still there.
C19_Witness ==
  /\ last.fn = PasswordEntry
  /\ last.path = "skip"
  /\ oidc_errno = OIDC_ECRED
  /\ account_getUsername(account) = NULL
  /\ account_getPassword(account) = "pw"

PwDeathPassed == account.pw_death /= 0 /\ account.pw_death <= now

\* C12: for an account with pw_death /= 0, the password reads back
\* unchanged as long as pw_death is still to come and the account stays
\* loaded (the lifetime controller touches the password field only); once
\* pw_death has passed the password reads as absent, and every attempt of
\* the password flow fails with OIDC_ECRED without the password driver
\* being invoked.
C12_PasswordLifetime ==
  /\ [](PwDeathPassed => ~strValid(account_getPassword(account)))
  /\ [][(account.pw_death /= 0 /\ now' < account.pw_death)
          => account_getPassword(account') = account_getPassword(account)]_vars
  /\ [][now' /= now
          => account' = [account EXCEPT !.password = account_getPassword(account')]]_vars
  /\ [][(PwDeathPassed /\ Called(PasswordEntry) /\ last'.path /= "cache")
          => (/\ last'.path = "skip"
              /\ last'.driver = "none"
              /\ last'.ret = OIDC_ECRED
              /\ oidc_errno' = OIDC_ECRED)]_vars

\* C12 witness: pw_death has passed, the password reads absent while the
\* username is still there, and a password attempt has failed with
\* OIDC_ECRED without the driver.
C12_Witness ==
  /\ PwDeathPassed
  /\ account_getPassword(account) = NULL
  /\ account_getUsername(account) = "user"
  /\ last.fn = PasswordEntry
  /\ last.path = "skip"
  /\ last.ret = OIDC_ECRED

Proc(r) == daemon.procs[r]
Over(r) == Proc(r).status \in {"none", EXIT_SUCCESS, EXIT_FAILURE, "returned"}
Returned == {r \in Roles : Proc(r).status = "returned"}
BothForksSucceeded == Exists("child") /\ Exists("grandchild")

\* C20: when both forks succeed the original process and the intermediate
\* child exit with EXIT_SUCCESS and the grandchild alone returns from
\* daemonize; the pid printed is the grandchild's and it is the
\* intermediate process that prints it, before it exits; when a fork fails
\* the process in which it failed exits with EXIT_FAILURE and no process
\* returns from daemonize.
C20_DaemonizeProcesses ==
  /\ Returned \subseteq {"grandchild"}
  /\ BothForksSucceeded
       => /\ Proc("original").status \in {"running", EXIT_SUCCESS}
          /\ Proc("child").status \in {"running", EXIT_SUCCESS}
          /\ Proc("grandchild").status \in {"running", "returned"}
          /\ (\A r \in Roles : Over(r))
               => (/\ Proc("original").status = EXIT_SUCCESS
                   /\ Proc("child").status = EXIT_SUCCESS
                   /\ Returned = {"grandchild"})
          /\ Proc("child").status = EXIT_SUCCESS => Len(daemon.printed) = 1
  /\ Len(daemon.printed) <= 1
  /\ daemon.printed /= <<>>
       => /\ BothForksSucceeded
          /\ daemon.printed[1].pid = Proc("grandchild").self
          /\ daemon.printed[1].by = Proc("child").self
  /\ Proc("original").pid = -1
       => /\ Proc("original").status \in {"running", EXIT_FAILURE}
          /\ ~Exists("child") /\ ~Exists("grandchild")
          /\ Returned = {}
          /\ Over("original") => Proc("original").status = EXIT_FAILURE
  /\ Proc("child").pid = -1
       => /\ Proc("child").status \in {"running", EXIT_FAILURE}
          /\ ~Exists("grandchild")
          /\ Returned = {}
          /\ Over("child") => Proc("child").status = EXIT_FAILURE

\* C20 witness: both forks succeeded and every process is done: two have
\* exited, the grandchild has returned, and its pid is the one printed.
C20_Witness ==
  /\ BothForksSucceeded
  /\ \A r \in Roles : Over(r)
  /\ Returned = {"grandchild"}
  /\ Len(daemon.printed) = 1
  /\ daemon.printed[1].pid = Proc("grandchild").self

=============================================================================
